---- MODULE Spec2Model ----
(***************************************************************************)
(* NAJU patient data store (src/naju/src-tauri/src/main.rs): the SQLite    *)
(* database (tables patients and files), the managed file tree, and the    *)
(* tauri commands that act on them.                                        *)
(*                                                                         *)
(* Text is a sequence of one-character strings (longer tokens stand for a  *)
(* fixed run of characters).  An SQL value or an Option<String> is NULL    *)
(* (<<>>) or Txt(s) (<<s>>).  Paths are texts with "/" separators.         *)
(***************************************************************************)
EXTENDS Integers, Sequences, FiniteSets, TLC

VARIABLES
  db,       \* the database file: patients/files tables, their columns and rows
  dirs,     \* directories that exist under the base directory
  disk,     \* files that exist under the base directory: path -> content
  clock,    \* the wall clock, in ticks
  zone,     \* the time zone of the machine
  usedIds,  \* the uuids generated so far
  imp,      \* position of the running import_files call (its loop)
  last,     \* the last command given and what it returned
  ncalls    \* number of commands given so far

vars == <<db, dirs, disk, clock, zone, usedIds, imp, last, ncalls>>

----------------------------------------------------------------------------
(* Bounds of the model *)

MaxOps == 3
MaxClock == 2
TicksPerSec == 2
MaxImport == 2
MaxPathLen == 6
MaxDrift == 1

----------------------------------------------------------------------------
(* Values *)

NULL == <<>>
Txt(s) == <<s>>
IsNull(v) == v = <<>>

Min(S) == CHOOSE x \in S : \A y \in S : x <= y
Max(S) == CHOOSE x \in S : \A y \in S : x >= y

Digits == <<"0", "1", "2", "3", "4", "5", "6", "7", "8", "9">>
Digit(n) == Digits[n + 1]

\* str::trim strips Unicode White_Space; SQLite's TRIM(x) strips spaces only.
RustWs == {" ", "\t", "\n"}
SqlWs == {" "}

TrimSet(s, ws) ==
  LET keep == {i \in 1..Len(s) : s[i] \notin ws}
  IN IF keep = {} THEN <<>> ELSE SubSeq(s, Min(keep), Max(keep))

RustTrim(s) == TrimSet(s, RustWs)
SqlTrim(s) == TrimSet(s, SqlWs)

\* SQL: COALESCE(a, b), NULLIF(a, ''), a IS NULL OR TRIM(a) = ''
Coalesce(a, b) == IF IsNull(a) THEN b ELSE a
NullIfEmpty(a) == IF a = Txt(<<>>) THEN NULL ELSE a
NullOrBlank(a) == IsNull(a) \/ SqlTrim(a[1]) = <<>>

----------------------------------------------------------------------------
(* Clock and timestamps *)

Sec(t) == t \div TicksPerSec

\* the time zone of the machine (chrono::Local): UTC, or a zone west of UTC
\* that leaves daylight saving time at second 1 of the model's clock, its
\* local date a day behind the UTC date (America/Santiago, where the clocks
\* are set back at 24:00 local time)
Zones == {"utc", "santiago"}

\* the date: the clock of the model stays within one UTC day
UtcDay == "1"
LocalDay(z) == IF z = "utc" THEN "1" ELSE "0"

\* the zone's offset from UTC at second s, as to_rfc3339 writes it
Offset(z, s) ==
  IF z = "utc" THEN "+00:00" ELSE IF s < 1 THEN "-03:00" ELSE "-04:00"

\* the seconds of the model by which local time of day is ahead under an offset
\* (the clocks are set back by SetBack seconds of the model)
SetBack == 2
Ahead(off) == IF off = "-03:00" THEN SetBack ELSE 0

\* the local time of day at second s: it repeats after the clocks are set back
LocalSec(z, s) == s + Ahead(Offset(z, s))

\* now_iso(): chrono::Local::now().to_rfc3339(): local date, 'T', local time of
\* day to the second, '.', fraction, offset from UTC
now_iso(z, t) ==
  <<LocalDay(z), "T", Digit(LocalSec(z, Sec(t))), ".", Digit(t % TicksPerSec),
    Offset(z, Sec(t))>>

\* SQLite datetime('now'): 'YYYY-MM-DD HH:MM:SS' in UTC, second resolution
SqlNow(t) == <<UtcDay, " ", Digit(Sec(t))>>

\* chrono::Local::now().format("%Y%m%d_%H%M%S"): local date, '_', local time of
\* day to the second, no offset
FileStamp(z, t) == <<LocalDay(z), "_", Digit(LocalSec(z, Sec(t)))>>

----------------------------------------------------------------------------
(* sanitize_filename *)

\* char::is_ascii_alphanumeric
AsciiAlnum ==
  {"a", "b", "c", "d", "e", "f", "g", "h", "i", "j", "k", "l", "m", "n", "o",
   "p", "q", "r", "s", "t", "u", "v", "w", "x", "y", "z",
   "A", "B", "C", "D", "E", "F", "G", "H", "I", "J", "K", "L", "M", "N", "O",
   "P", "Q", "R", "S", "T", "U", "V", "W", "X", "Y", "Z",
   "0", "1", "2", "3", "4", "5", "6", "7", "8", "9"}
SafePunct == {".", "_", "-", " ", "(", ")", "[", "]"}

sanitize_filename(name) ==
  LET out == [i \in 1..Len(name) |->
                IF name[i] \in AsciiAlnum \cup SafePunct THEN name[i] ELSE "_"]
      t == RustTrim(out)
  IN [i \in 1..Len(t) |-> IF t[i] = " " THEN "_" ELSE t[i]]

----------------------------------------------------------------------------
(* Paths *)

Base == <<"/", "data", "/", "NAJU">>

IsPrefix(p, s) == Len(p) <= Len(s) /\ SubSeq(s, 1, Len(p)) = p

\* the platform's path syntax: on Unix '/' separates components and '\\' is a
\* character of a name; on Windows both separate and '\\' is the main one
Conventions == {"unix", "windows"}
Seps(conv) == IF conv = "unix" THEN {"/"} ELSE {"/", "\\"}
MainSep(conv) == IF conv = "unix" THEN "/" ELSE "\\"

\* where the name (which may be empty) that starts at i ends
\* (parse_next_component)
NameEnd(conv, path, i) ==
  LET seps == {j \in i..Len(path) : path[j] \in Seps(conv)}
  IN IF seps = {} THEN Len(path) ELSE Min(seps) - 1

NoPrefix == [len |-> 0, comps |-> <<>>]

\* the prefix \\server\share whose server ends at se and whose share ends at
\* sh, when neither name is empty: its length and its component,
\* Component::Prefix
Unc(path, se, sh) ==
  IF se >= 3 /\ sh >= se + 2
  THEN [len |-> sh,
        comps |-> << <<"\\\\">> \o SubSeq(path, 3, se) \o <<"\\">>
                       \o SubSeq(path, se + 2, sh) >>]
  ELSE NoPrefix

\* the share starts one separator after the server
UncShare(conv, path, se) == Unc(path, se, NameEnd(conv, path, se + 2))

\* parse_prefix: on Windows a path that starts with two separators, of either
\* kind, is read as \\server\share; the server starts after the two
\* separators
parse_prefix(conv, path) ==
  IF conv = "windows" /\ Len(path) >= 2 /\ {path[1], path[2]} \subseteq Seps(conv)
  THEN UncShare(conv, path, NameEnd(conv, path, 3))
  ELSE NoPrefix

\* Path::has_root: the path starts with a separator (a UNC prefix, which
\* starts with two, has an implicit root)
HasRoot(conv, path) == path # <<>> /\ path[1] \in Seps(conv)

\* Component::RootDir
RootComp == <<"/">>

\* where the component that starts at i ends
RECURSIVE CompEnd(_, _, _)
CompEnd(conv, path, i) ==
  IF i >= Len(path) \/ path[i + 1] \in Seps(conv) THEN i
  ELSE CompEnd(conv, path, i + 1)

\* the <<first, last>> positions of the components of path from position i on
RECURSIVE CompSpans(_, _, _)
CompSpans(conv, path, i) ==
  IF i > Len(path) THEN <<>>
  ELSE IF path[i] \in Seps(conv) THEN CompSpans(conv, path, i + 1)
  ELSE LET e == CompEnd(conv, path, i)
       IN <<<<i, e>>>> \o CompSpans(conv, path, e + 1)

\* path after its prefix pre: the prefix and the root as components, and the
\* <<first, last>> positions of the names
ParseAfter(conv, path, pre) ==
  [head |-> pre.comps \o (IF HasRoot(conv, path) THEN <<RootComp>> ELSE <<>>),
   plen |-> pre.len,
   spans |-> CompSpans(conv, path, pre.len + 1)]

Parse(conv, path) == ParseAfter(conv, path, parse_prefix(conv, path))

\* the components of a parsed path: the prefix, the root, the names
CompsOf(path, pp) ==
  pp.head \o [k \in DOMAIN pp.spans |-> SubSeq(path, pp.spans[k][1], pp.spans[k][2])]

\* Path::components
Components(conv, path) == CompsOf(path, Parse(conv, path))

\* PathBuf == PathBuf: the same components
PathEq(conv, a, b) == Components(conv, a) = Components(conv, b)

\* bc leads the components of the parsed path pp; val is what is left of
\* path, as written
StripComps(path, bc, pp) ==
  LET pc == CompsOf(path, pp)
      sp == pp.spans
      h == Len(pp.head)
      n == Len(bc)
  IN IF n <= Len(pc) /\ SubSeq(pc, 1, n) = bc
     THEN [ok |-> TRUE,
           val |-> IF n = Len(pc) THEN <<>>
                   ELSE IF n >= h THEN SubSeq(path, sp[n - h + 1][1], sp[Len(sp)][2])
                   ELSE IF sp = <<>> THEN SubSeq(path, 1, Max({pp.plen, 1}))
                   ELSE SubSeq(path, 1, sp[Len(sp)][2])]
     ELSE [ok |-> FALSE, val |-> <<>>]

\* Path::strip_prefix: base's components lead path's
strip_prefix(conv, base, path) ==
  StripComps(path, Components(conv, base), Parse(conv, path))

\* rel_from_base with app_base_dir = base: strip_prefix, then '\\' -> '/'
RelFrom(conv, base, abs) ==
  LET rel == strip_prefix(conv, base, abs)
  IN [ok |-> rel.ok,
      val |-> [i \in 1..Len(rel.val) |-> IF rel.val[i] = "\\" THEN "/" ELSE rel.val[i]]]

\* PathBuf::push: an argument that is absolute or has a prefix replaces the
\* path; on Windows an argument with a root and no prefix replaces all but the
\* path's prefix; another is appended, after a separator when the path does
\* not end with one
Push(conv, base, rel) ==
  IF HasRoot(conv, rel)
  THEN IF conv = "unix" \/ parse_prefix(conv, rel).len > 0 THEN rel
       ELSE SubSeq(base, 1, parse_prefix(conv, base).len) \o rel
  ELSE IF base = <<>> \/ base[Len(base)] \in Seps(conv) THEN base \o rel
  ELSE base \o <<MainSep(conv)>> \o rel

\* abs_from_base with app_base_dir = base
AbsFrom(conv, base, rel) == Push(conv, base, rel)

\* the two on the platform and base directory of this model's file tree
rel_from_base(abs) == RelFrom("unix", Base, abs)

abs_from_base(rel) == AbsFrom("unix", Base, rel)

Join(dir, name) == dir \o <<"/">> \o name

\* Path::file_name: the text after the last separator
file_name(path) ==
  LET seps == {i \in 1..Len(path) : path[i] = "/"}
  IN IF seps = {} THEN path ELSE SubSeq(path, Max(seps) + 1, Len(path))

\* Path::extension: the text after the last '.' of the file name, when the
\* name has a '.' that is not its first character
extension(path) ==
  LET fn == file_name(path)
      dots == {i \in 2..Len(fn) : fn[i] = "."}
  IN IF dots = {} THEN NULL ELSE Txt(SubSeq(fn, Max(dots) + 1, Len(fn)))

patients_dir == Join(Base, <<"patients">>)
\* p.push(patient_id): an absolute patient_id replaces the path
PatientDir(pid) == Push("unix", patients_dir, pid)

\* the directories patient_folder makes sure exist (create_dir_all)
patient_folder(pid) ==
  {Base, patients_dir, PatientDir(pid),
   Join(PatientDir(pid), <<"files">>),
   Join(PatientDir(pid), <<"exams">>),
   Join(PatientDir(pid), <<"profile">>)}

----------------------------------------------------------------------------
(* The database *)

\* the columns the commands read and write (SELECT list of list_patients)
Select15 == <<"id", "name", "doc_type", "doc_number", "insurer", "birth_date",
              "sex", "phone", "email", "address", "emergency_contact", "notes",
              "photo_path", "created_at", "updated_at">>

\* the SELECT list of create_patient, update_patient and set_patient_photo
Select13 == <<"id", "name", "doc_type", "doc_number", "insurer", "birth_date",
              "phone", "email", "address", "notes", "photo_path", "created_at",
              "updated_at">>

Range(f) == {f[i] : i \in DOMAIN f}

CurrentCols == Range(Select15)
RowCols == CurrentCols \cup {"full_name"}

\* CREATE TABLE IF NOT EXISTS patients (...)
BaseCols == {"id", "name", "sex", "emergency_contact", "created_at", "updated_at"}

\* the add_column_if_missing calls of ensure_schema, in order, with the DEFAULT
\* of each DDL ('' for TEXT NOT NULL DEFAULT '', NULL for TEXT)
AddedCols == <<"name", "doc_type", "doc_number", "insurer", "birth_date", "phone",
               "email", "address", "notes", "photo_path", "created_at",
               "updated_at">>
ColDefault(col) ==
  IF col \in {"name", "created_at", "updated_at"} THEN Txt(<<>>) ELSE NULL

\* a database file that does not exist yet
NoDb == [pcols |-> {}, nameNotNull |-> TRUE, patients |-> <<>>,
         hasFiles |-> FALSE, files |-> {}, fileSeq |-> 0]

CreatePatientsTable(d) ==
  IF d.pcols = {} THEN [d EXCEPT !.pcols = BaseCols, !.nameNotNull = TRUE] ELSE d

\* table_columns + ALTER TABLE patients ADD COLUMN col ddl
add_column_if_missing(d, col) ==
  IF col \in d.pcols THEN d
  ELSE [d EXCEPT !.pcols = @ \cup {col},
                 !.nameNotNull = IF col = "name" THEN TRUE ELSE @,
                 !.patients = [id \in DOMAIN @ |-> [@[id] EXCEPT ![col] = ColDefault(col)]]]

RECURSIVE AddColumns(_, _)
AddColumns(d, cols) ==
  IF cols = <<>> THEN d
  ELSE AddColumns(add_column_if_missing(d, Head(cols)), Tail(cols))

\* UPDATE patients SET name = COALESCE(NULLIF(name,''), full_name)
\*   WHERE name IS NULL OR TRIM(name) = ''
\* the statement fails as a whole when a new name violates NOT NULL
MigrateFullName(d) ==
  IF ~({"full_name", "name"} \subseteq d.pcols) THEN [ok |-> TRUE, db |-> d]
  ELSE LET newName(r) == IF NullOrBlank(r["name"])
                         THEN Coalesce(NullIfEmpty(r["name"]), r["full_name"])
                         ELSE r["name"]
       IN IF d.nameNotNull /\ \E id \in DOMAIN d.patients : IsNull(newName(d.patients[id]))
          THEN [ok |-> FALSE, db |-> d]
          ELSE [ok |-> TRUE,
                db |-> [d EXCEPT !.patients =
                          [id \in DOMAIN d.patients |->
                             [d.patients[id] EXCEPT !["name"] = newName(d.patients[id])]]]]

\* a variant that stamps updated_at on every row the WHERE clause selects
FillTimestampsStampAll(d, t) ==
  LET touched(r) == NullOrBlank(r["created_at"]) \/ NullOrBlank(r["updated_at"])
      fill(r) == [r EXCEPT
                    !["created_at"] = Coalesce(NullIfEmpty(@), Txt(SqlNow(t))),
                    !["updated_at"] = Txt(SqlNow(t))]
  IN [d EXCEPT !.patients = [id \in DOMAIN @ |-> IF touched(@[id]) THEN fill(@[id]) ELSE @[id]]]

\* UPDATE patients SET created_at = COALESCE(NULLIF(created_at,''), datetime('now')),
\*                     updated_at = COALESCE(NULLIF(updated_at,''), datetime('now'))
\*   WHERE created_at IS NULL OR TRIM(created_at) = ''
\*      OR updated_at IS NULL OR TRIM(updated_at) = ''
FillTimestamps(d, t) ==
  LET touched(r) == NullOrBlank(r["created_at"]) \/ NullOrBlank(r["updated_at"])
      fill(r) == [r EXCEPT
                    !["created_at"] = Coalesce(NullIfEmpty(@), Txt(SqlNow(t))),
                    !["updated_at"] = Coalesce(NullIfEmpty(@), Txt(SqlNow(t)))]
  IN [d EXCEPT !.patients = [id \in DOMAIN @ |-> IF touched(@[id]) THEN fill(@[id]) ELSE @[id]]]

\* CREATE TABLE IF NOT EXISTS files (...)
CreateFilesTable(d) == [d EXCEPT !.hasFiles = TRUE]

ensure_schema(d, t) ==
  LET d2 == AddColumns(CreatePatientsTable(d), AddedCols)
      m == MigrateFullName(d2)
  IN IF ~m.ok THEN [ok |-> FALSE, db |-> d2]
     ELSE [ok |-> TRUE, db |-> CreateFilesTable(FillTimestamps(m.db, t))]

----------------------------------------------------------------------------
(* Inputs of the commands *)

OptFields == {"doc_type", "doc_number", "insurer", "birth_date", "sex", "phone",
              "email", "address", "emergency_contact", "notes"}

\* struct PatientInput
InputA == [f \in {"name"} \cup OptFields |->
             CASE f = "name" -> <<" ", "a", " ">>
               [] f = "sex" -> Txt(<<"b">>)
               [] f = "emergency_contact" -> Txt(<<"A">>)
               [] OTHER -> NULL]
InputB == [f \in {"name"} \cup OptFields |->
             CASE f = "name" -> <<"b">>
               [] f \in {"sex", "emergency_contact"} -> NULL
               [] f = "insurer" -> Txt(<<"A", "b">>)
               [] OTHER -> Txt(<<"a">>)]
InputBlank == [f \in {"name"} \cup OptFields |->
                 IF f = "name" THEN <<" ", "\t">> ELSE NULL]
InputEmpty == [f \in {"name"} \cup OptFields |->
                 IF f = "name" THEN <<>> ELSE Txt(<<"a">>)]
Inputs == {InputA, InputB, InputBlank, InputEmpty}

\* the query text of list_patients
Filters == {<<>>, <<" ">>, <<" ", "a">>, <<"b">>, <<"_">>}

\* uuid::Uuid::new_v4().to_string()
Ids == {<<"p1">>, <<"p2">>}
NoId == <<"none">>

\* the patient_id a caller may give to a command that stores a file: a uuid, or
\* any other text, an absolute path among them
Outside == <<"/", "x">>
CallerIds == Ids \cup {Outside}

\* a new uuid is one never generated before; which one is immaterial, so the
\* model hands them out in a fixed order
FreshIds(used) ==
  IF <<"p1">> \notin used THEN {<<"p1">>}
  ELSE IF <<"p2">> \notin used THEN {<<"p2">>} ELSE {}

\* files outside the managed tree that a caller may name: a regular file, a
\* path that does not exist, and a directory (exists, but fs::copy fails on it)
SrcFile == [path |-> <<"/", "in", "/", "a", " ", "#", ".", "p">>, kind |-> "file",
            content |-> "bytes"]
SrcFile2 == [path |-> <<"/", "in", "/", "b">>, kind |-> "file", content |-> "other"]
SrcMissing == [path |-> <<"/", "in", "/", "b", ".", "p">>, kind |-> "missing",
               content |-> "none"]
SrcDir == [path |-> <<"/", "in", "/", "A">>, kind |-> "dir", content |-> "none"]
Sources == {SrcFile, SrcFile2, SrcMissing, SrcDir}

SrcLists == UNION {[1..n -> Sources] : n \in 0..MaxImport}

\* serde_json::to_string_pretty(&payload)
ExamContent == "json"

----------------------------------------------------------------------------
(* Results of the commands: Ok(val) or Err(err) *)

Ok(v) == [ok |-> TRUE, err |-> "", val |-> v]
Err(e) == [ok |-> FALSE, err |-> e, val |-> <<>>]

ErrNombre == "Nombre requerido"
ErrSchema == "DB schema error"
ErrSql == "SQL error"
ErrNoRows == "Query returned no rows"
ErrColumnIndex == "Invalid column index"
ErrColumnType == "Invalid column type"
ErrNoFoto == "El archivo de foto no existe"
ErrCopyFoto == "No se pudo copiar foto"
ErrCopyArchivo == "No se pudo copiar archivo"
ErrForeignKey == "FOREIGN KEY constraint failed"
ErrRelPath == "No se pudo calcular ruta relativa"
ErrCrearBase == "No se pudo crear base dir"
ErrResolver == "No se pudo resolver ninguna carpeta de datos"
ErrAbrir == "No se pudo abrir carpeta"

----------------------------------------------------------------------------
(* Rows *)

\* struct Patient: fields in declaration order; field k is read by row.get(k)
PatientFields == Select15
StringFields == {"id", "name", "created_at", "updated_at"}

\* row_to_patient: get(12) first, then get(0..11), get(13), get(14); the first
\* failing get decides the error
row_to_patient(vals) ==
  LET order == <<13>> \o [i \in 1..12 |-> i] \o <<14, 15>>
      bad(k) == \/ k > Len(vals)
                \/ PatientFields[k] \in StringFields /\ IsNull(vals[k])
      fails == {j \in 1..Len(order) : bad(order[j])}
  IN IF fails # {}
     THEN IF order[Min(fails)] > Len(vals) THEN Err(ErrColumnIndex) ELSE Err(ErrColumnType)
     ELSE Ok(<<[f \in Range(PatientFields) |->
                 LET k == CHOOSE i \in 1..15 : PatientFields[i] = f
                 IN IF f \in StringFields THEN vals[k][1]
                    ELSE IF f = "photo_path" /\ ~IsNull(vals[k])
                         THEN Txt(abs_from_base(vals[k][1]))
                         ELSE vals[k]]>>)

\* conn.prepare(SELECT sel FROM patients WHERE id=?1) + query_row(row_to_patient)
QueryPatient(d, sel, pid) ==
  IF ~(Range(sel) \subseteq d.pcols) THEN Err(ErrSql)
  ELSE IF pid \notin DOMAIN d.patients THEN Err(ErrNoRows)
  ELSE row_to_patient([i \in 1..Len(sel) |-> d.patients[pid][sel[i]]])

\* the row INSERT INTO files (...) adds; id from AUTOINCREMENT
AppendFile(d, pid, kind, filename, rel, created, meta) ==
  [ok |-> TRUE,
   db |-> [d EXCEPT !.fileSeq = @ + 1,
                    !.files = @ \cup {[id |-> d.fileSeq + 1, patient_id |-> pid,
                                       kind |-> kind, filename |-> filename,
                                       stored_relpath |-> rel, created_at |-> created,
                                       meta_json |-> meta]}]]

\* a variant with foreign-key enforcement left off
\* (INSERT INTO files with PRAGMA foreign_keys = ON is InsertFile below)
InsertFile_NoForeignKey(d, pid, kind, filename, rel, created, meta) ==
  AppendFile(d, pid, kind, filename, rel, created, meta)

InsertFile(d, pid, kind, filename, rel, created, meta) ==
  IF ~d.hasFiles \/ pid \notin DOMAIN d.patients THEN [ok |-> FALSE, db |-> d]
  ELSE AppendFile(d, pid, kind, filename, rel, created, meta)

\* struct PatientFile as the commands build it
PatientFile(id, pid, kind, filename, created, path, meta) ==
  [id |-> id, patient_id |-> pid, kind |-> kind, filename |-> filename,
   created_at |-> created, path |-> path, meta_json |-> meta]

\* fs::copy / fs::write: creates the destination or replaces its content
WriteFile(dk, path, content) ==
  [p \in DOMAIN dk \cup {path} |-> IF p = path THEN content ELSE dk[p]]

----------------------------------------------------------------------------
(* The commands.  Each takes the store st = [db, dirs, disk], the zone z and *)
(* the readings ts of the clock it makes, in the order it makes them (t for  *)
(* a command that reads it once; the first reading is ensure_schema's), and  *)
(* gives the store it leaves and the result it returns.                      *)

Out(d, dr, dk, r) == [db |-> d, dirs |-> dr, disk |-> dk, res |-> r]

\* open_db: db_path -> app_base_dir creates the base directory; ensure_schema
\* a failed ensure_schema keeps the ALTER TABLEs it had already run
OpenFailed(st, o) == Out(o.db, st.dirs \cup {Base}, st.disk, Err(ErrSchema))

\* SQLite's LIKE folds the case of ASCII letters only
Fold(c) == CASE c = "A" -> "a" [] c = "B" -> "b" [] OTHER -> c

\* text LIKE pattern: '%' matches any run of characters, '_' any one character
RECURSIVE Like(_, _)
Like(pat, text) ==
  IF pat = <<>> THEN text = <<>>
  ELSE IF Head(pat) = "%"
       THEN \E k \in 0..Len(text) : Like(Tail(pat), SubSeq(text, k + 1, Len(text)))
       ELSE /\ text # <<>>
            /\ Head(pat) = "_" \/ Fold(Head(pat)) = Fold(Head(text))
            /\ Like(Tail(pat), Tail(text))

\* format!("%{}%", q)
LikePattern(q) == <<"%">> \o q \o <<"%">>

\* WHERE name LIKE ?1 OR doc_number LIKE ?1 OR insurer LIKE ?1
\*    OR emergency_contact LIKE ?1   (NULL LIKE x is not true)
SearchCols == {"name", "doc_number", "insurer", "emergency_contact"}
PatientMatches(r, q) ==
  \E c \in SearchCols : ~IsNull(r[c]) /\ Like(LikePattern(q), r[c][1])

\* the byte order of the tokens of a stored timestamp (BINARY collation):
\* ten times the first byte, plus what tells tokens with the same first byte
Ascii(c) ==
  CASE c = " " -> 320
    [] c = "+00:00" -> 430
    [] c = "-03:00" -> 453
    [] c = "-04:00" -> 454
    [] c = "." -> 460
    [] c = "T" -> 840
    [] c = "_" -> 950
    [] OTHER -> 480 + 10 * (CHOOSE n \in 0..9 : Digit(n) = c)

RECURSIVE TextLeq(_, _)
TextLeq(a, b) ==
  IF a = <<>> THEN TRUE
  ELSE IF b = <<>> THEN FALSE
  ELSE IF Head(a) = Head(b) THEN TextLeq(Tail(a), Tail(b))
  ELSE Ascii(Head(a)) < Ascii(Head(b))

\* SELECT ... FROM patients [WHERE ...] ORDER BY updated_at DESC: the ids of the
\* rows in an order the statement may give (rows with equal updated_at come in
\* any order)
SelectPatients(d, q) ==
  LET hit == {id \in DOMAIN d.patients : q = <<>> \/ PatientMatches(d.patients[id], q)}
      n == Cardinality(hit)
  IN {ids \in [1..n -> hit] :
        /\ \A i, j \in 1..n : i # j => ids[i] # ids[j]
        /\ \A i \in 1..n : \A j \in (i + 1)..n :
             TextLeq(d.patients[ids[j]]["updated_at"][1],
                     d.patients[ids[i]]["updated_at"][1])}

\* list_patients, when its SELECT gives the rows in the order ids
list_patients(st, t, query, ids) ==
  LET o == ensure_schema(st.db, t)
      rows == [i \in 1..Len(ids) |->
                 row_to_patient([k \in 1..Len(Select15) |-> o.db.patients[ids[i]][Select15[k]]])]
      bad == {i \in 1..Len(ids) : ~rows[i].ok}
  IN IF ~o.ok THEN OpenFailed(st, o)
     ELSE IF ~(CurrentCols \subseteq o.db.pcols)
          THEN Out(o.db, st.dirs \cup {Base}, st.disk, Err(ErrSql))
     ELSE IF bad # {} THEN Out(o.db, st.dirs \cup {Base}, st.disk, rows[Min(bad)])
     ELSE Out(o.db, st.dirs \cup {Base}, st.disk,
              Ok([i \in 1..Len(ids) |-> rows[i].val[1]]))

\* the row of INSERT INTO patients (...) VALUES (?1,..,?12,NULL,?13,?14)
NewPatientRow(id, name, input, z, t) ==
  [c \in RowCols |->
     CASE c = "id" -> Txt(id)
       [] c = "name" -> Txt(name)
       [] c \in OptFields -> input[c]
       [] c \in {"created_at", "updated_at"} -> Txt(now_iso(z, t))
       [] OTHER -> NULL]

\* a variant without the check of the trimmed name
create_patient_NoValidation(st, z, ts, input, id) ==
  LET name == RustTrim(input["name"])
      o == ensure_schema(st.db, ts[1])
      d2 == [o.db EXCEPT !.patients =
               [p \in DOMAIN @ \cup {id} |->
                  IF p = id THEN NewPatientRow(id, name, input, z, ts[2])
                  ELSE o.db.patients[p]]]
  IN Out(d2, st.dirs \cup patient_folder(id), st.disk, QueryPatient(d2, Select13, id))

create_patient(st, z, ts, input, id) ==
  LET name == RustTrim(input["name"])
      o == ensure_schema(st.db, ts[1])
      d2 == [o.db EXCEPT !.patients =
               [p \in DOMAIN @ \cup {id} |->
                  IF p = id THEN NewPatientRow(id, name, input, z, ts[2])
                  ELSE o.db.patients[p]]]
  IN IF name = <<>> THEN Out(st.db, st.dirs, st.disk, Err(ErrNombre))
     ELSE IF ~o.ok THEN OpenFailed(st, o)
     ELSE IF ~(CurrentCols \subseteq o.db.pcols)
          THEN Out(o.db, st.dirs \cup {Base}, st.disk, Err(ErrSql))
     ELSE Out(d2, st.dirs \cup patient_folder(id), st.disk,
              QueryPatient(d2, Select13, id))

\* a variant that keeps the old value of a field the input leaves out
UpdatedRow_Merge(r, input, z, t) ==
  [c \in RowCols |->
     CASE c = "name" -> Txt(RustTrim(input["name"]))
       [] c \in OptFields -> Coalesce(input[c], r[c])
       [] c = "updated_at" -> Txt(now_iso(z, t))
       [] OTHER -> r[c]]

\* UPDATE patients SET name=?2, ..., notes=?12, updated_at=?13 WHERE id=?1
UpdatedRow(r, input, z, t) ==
  [c \in RowCols |->
     CASE c = "name" -> Txt(RustTrim(input["name"]))
       [] c \in OptFields -> input[c]
       [] c = "updated_at" -> Txt(now_iso(z, t))
       [] OTHER -> r[c]]

update_patient(st, z, ts, pid, input) ==
  LET o == ensure_schema(st.db, ts[1])
      d2 == [o.db EXCEPT !.patients =
               [p \in DOMAIN @ |->
                  IF p = pid THEN UpdatedRow(o.db.patients[p], input, z, ts[2])
                  ELSE o.db.patients[p]]]
  IN IF ~o.ok THEN OpenFailed(st, o)
     ELSE IF ~(({"name", "updated_at"} \cup OptFields) \subseteq o.db.pcols)
          THEN Out(o.db, st.dirs \cup {Base}, st.disk, Err(ErrSql))
     ELSE Out(d2, st.dirs \cup {Base}, st.disk, QueryPatient(d2, Select13, pid))

\* a variant that deletes the patients row only
DeletePatientRow_NoCascade(d, pid) ==
  [d EXCEPT !.patients = [p \in DOMAIN @ \ {pid} |-> d.patients[p]]]

\* DELETE FROM patients WHERE id=?1, with FOREIGN KEY(patient_id) REFERENCES
\* patients(id) ON DELETE CASCADE and foreign_keys = ON
DeletePatientRow(d, pid) ==
  [d EXCEPT !.patients = [p \in DOMAIN @ \ {pid} |-> d.patients[p]],
            !.files = {f \in @ : f.patient_id # pid \/ pid \notin DOMAIN d.patients}]

delete_patient(st, t, pid) ==
  LET o == ensure_schema(st.db, t)
  IN IF ~o.ok THEN OpenFailed(st, o)
     ELSE Out(DeletePatientRow(o.db, pid), st.dirs \cup {Base}, st.disk, Ok(<<>>))

\* a variant that stamps updated_at with the whole-second datetime('now')
SetPhotoRow_SqlNow(d, pid, rel, z, t) ==
  [d EXCEPT !.patients =
     [p \in DOMAIN @ |->
        IF p = pid
        THEN [d.patients[p] EXCEPT !["photo_path"] = Txt(rel),
                                   !["updated_at"] = Txt(SqlNow(t))]
        ELSE d.patients[p]]]

\* UPDATE patients SET photo_path=?2, updated_at=?3 WHERE id=?1
SetPhotoRow(d, pid, rel, z, t) ==
  [d EXCEPT !.patients =
     [p \in DOMAIN @ |->
        IF p = pid
        THEN [d.patients[p] EXCEPT !["photo_path"] = Txt(rel),
                                   !["updated_at"] = Txt(now_iso(z, t))]
        ELSE d.patients[p]]]

PhotoName(src, z, t) ==
  LET e == extension(src.path)
  IN <<"profile_">> \o FileStamp(z, t) \o <<".">> \o (IF IsNull(e) THEN <<"jpg">> ELSE e[1])

PhotoDst(pid, src, z, t) ==
  Join(Join(PatientDir(pid), <<"profile">>), PhotoName(src, z, t))

\* a variant that updates the row before it looks at the source
set_patient_photo_UpdateFirst(st, z, ts, pid, src, insertFails) ==
  LET o == ensure_schema(st.db, ts[1])
      dr == st.dirs \cup patient_folder(pid)
      dst == PhotoDst(pid, src, z, ts[2])
      d2 == SetPhotoRow(o.db, pid, rel_from_base(dst).val, z, ts[3])
      i == InsertFile(d2, pid, "photo", file_name(dst), rel_from_base(dst).val,
                      now_iso(z, ts[4]), NULL)
  IN IF src.kind = "missing" THEN Out(d2, dr, st.disk, Err(ErrNoFoto))
     ELSE IF src.kind # "file" THEN Out(d2, dr, st.disk, Err(ErrCopyFoto))
     ELSE Out(i.db, dr, WriteFile(st.disk, dst, src.content),
              QueryPatient(i.db, Select13, pid))

\* insertFails: the INSERT INTO files fails for a reason of its own (I/O error,
\* full disk, a files table of another shape); it also fails on the foreign key
\* ts: ensure_schema, the stamp of the file name, updated_at, the files row's
\* created_at
set_patient_photo(st, z, ts, pid, src, insertFails) ==
  LET o == ensure_schema(st.db, ts[1])
      dr == st.dirs \cup patient_folder(pid)
      dst == PhotoDst(pid, src, z, ts[2])
      rel == rel_from_base(dst)
      d2 == SetPhotoRow(o.db, pid, rel.val, z, ts[3])
      \* the INSERT's failure is dropped by .ok()
      i == IF insertFails THEN [ok |-> FALSE, db |-> d2]
           ELSE InsertFile(d2, pid, "photo", file_name(dst), rel.val,
                           now_iso(z, ts[4]), NULL)
      dk == WriteFile(st.disk, dst, src.content)
  IN IF ~o.ok THEN OpenFailed(st, o)
     ELSE IF src.kind = "missing" THEN Out(o.db, dr, st.disk, Err(ErrNoFoto))
     ELSE IF src.kind # "file" THEN Out(o.db, dr, st.disk, Err(ErrCopyFoto))
     ELSE IF ~rel.ok THEN Out(o.db, dr, dk, Err(ErrRelPath))
     ELSE Out(i.db, dr, dk, QueryPatient(i.db, Select13, pid))

ExamName(z, t) == <<"emf_">> \o FileStamp(z, t) \o <<".json">>
ExamMeta == Txt(<<"{\"type\":\"examen_mental\"}">>)

\* a variant that inserts the files row and leaves the file unwritten
create_mental_exam_RowOnly(st, z, ts, pid) ==
  LET o == ensure_schema(st.db, ts[1])
      dr == st.dirs \cup patient_folder(pid)
      created == now_iso(z, ts[2])
      fname == ExamName(z, ts[3])
      dst == Join(Join(PatientDir(pid), <<"exams">>), fname)
      i == InsertFile(o.db, pid, "exam", fname, rel_from_base(dst).val, created, ExamMeta)
  IN IF ~i.ok THEN Out(o.db, dr, st.disk, Err(ErrForeignKey))
     ELSE Out(i.db, dr, st.disk,
              Ok(<<PatientFile(i.db.fileSeq, pid, "exam", fname, created, dst, ExamMeta)>>))

\* ts: ensure_schema, created_at, the stamp of the file name
create_mental_exam(st, z, ts, pid) ==
  LET o == ensure_schema(st.db, ts[1])
      dr == st.dirs \cup patient_folder(pid)
      created == now_iso(z, ts[2])
      fname == ExamName(z, ts[3])
      dst == Join(Join(PatientDir(pid), <<"exams">>), fname)
      dk == WriteFile(st.disk, dst, ExamContent)
      rel == rel_from_base(dst)
      i == InsertFile(o.db, pid, "exam", fname, rel.val, created, ExamMeta)
  IN IF ~o.ok THEN OpenFailed(st, o)
     ELSE IF ~rel.ok THEN Out(o.db, dr, dk, Err(ErrRelPath))
     ELSE IF ~i.ok THEN Out(o.db, dr, dk, Err(ErrForeignKey))
     ELSE Out(i.db, dr, dk,
              Ok(<<PatientFile(i.db.fileSeq, pid, "exam", fname, created, dst, ExamMeta)>>))

\* import_files up to its loop: open_db and patient_folder
import_open(st, t, pid) ==
  LET o == ensure_schema(st.db, t)
  IN IF ~o.ok THEN OpenFailed(st, o)
     ELSE Out(o.db, st.dirs \cup patient_folder(pid), st.disk, Ok(<<>>))

ImportName(src, z, t) ==
  FileStamp(z, t) \o <<"_">> \o sanitize_filename(file_name(src.path))
ImportDst(pid, src, z, t) ==
  Join(Join(PatientDir(pid), <<"files">>), ImportName(src, z, t))

\* a variant without the src.exists() test: fs::copy fails on a missing source
import_one_NoExistsTest(st, z, ts, pid, src) ==
  LET safe == sanitize_filename(file_name(src.path))
      dst == ImportDst(pid, src, z, ts[1])
      created == now_iso(z, ts[2])
      dk == WriteFile(st.disk, dst, src.content)
      i == InsertFile(st.db, pid, "attachment", safe, rel_from_base(dst).val,
                      created, NULL)
  IN IF src.kind # "file" THEN Out(st.db, st.dirs, st.disk, Err(ErrCopyArchivo))
     ELSE IF ~i.ok THEN Out(st.db, st.dirs, dk, Err(ErrForeignKey))
     ELSE Out(i.db, st.dirs, dk,
              Ok(<<PatientFile(i.db.fileSeq, pid, "attachment", safe, created, dst, NULL)>>))

\* one turn of the loop of import_files on source src; res.val is the record
\* pushed to `created` (none for a skipped source), an Err ends the command
\* ts: the stamp of the file name, created_at
import_one(st, z, ts, pid, src) ==
  LET safe == sanitize_filename(file_name(src.path))
      dst == ImportDst(pid, src, z, ts[1])
      created == now_iso(z, ts[2])
      dk == WriteFile(st.disk, dst, src.content)
      rel == rel_from_base(dst)
      i == InsertFile(st.db, pid, "attachment", safe, rel.val, created, NULL)
  IN IF src.kind = "missing" THEN Out(st.db, st.dirs, st.disk, Ok(<<>>))
     ELSE IF src.kind # "file" THEN Out(st.db, st.dirs, st.disk, Err(ErrCopyArchivo))
     ELSE IF ~rel.ok THEN Out(st.db, st.dirs, dk, Err(ErrRelPath))
     ELSE IF ~i.ok THEN Out(st.db, st.dirs, dk, Err(ErrForeignKey))
     ELSE Out(i.db, st.dirs, dk,
              Ok(<<PatientFile(i.db.fileSeq, pid, "attachment", safe, created, dst, NULL)>>))

\* ORDER BY created_at DESC, id DESC: row f comes before row g
FileBefore(f, g) ==
  IF f.created_at = g.created_at THEN f.id > g.id
  ELSE TextLeq(g.created_at, f.created_at)

RECURSIVE SortFiles(_)
SortFiles(rows) ==
  IF rows = {} THEN <<>>
  ELSE LET f == CHOOSE x \in rows : \A y \in rows \ {x} : FileBefore(x, y)
       IN <<f>> \o SortFiles(rows \ {f})

\* list_patient_files: SELECT ... FROM files WHERE patient_id=?1 ORDER BY
\* created_at DESC, id DESC, each stored_relpath resolved by abs_from_base
list_patient_files(st, t, pid) ==
  LET o == ensure_schema(st.db, t)
      rows == SortFiles({f \in o.db.files : f.patient_id = pid})
  IN IF ~o.ok THEN OpenFailed(st, o)
     ELSE Out(o.db, st.dirs \cup {Base}, st.disk,
              Ok([i \in 1..Len(rows) |->
                    PatientFile(rows[i].id, rows[i].patient_id, rows[i].kind,
                                rows[i].filename, rows[i].created_at,
                                abs_from_base(rows[i].stored_relpath),
                                rows[i].meta_json)]))

\* open_patient_folder: patient_folder, then open::that on the folder; opened
\* tells whether the system's opener succeeds.  The database is not opened.
open_patient_folder(st, pid, opened) ==
  Out(st.db, st.dirs \cup patient_folder(pid), st.disk,
      IF opened THEN Ok(<<>>) ELSE Err(ErrAbrir))

----------------------------------------------------------------------------
(* The state machine: one user gives one command at a time *)

Store == [db |-> db, dirs |-> dirs, disk |-> disk]

\* the running import_files call: its arguments, the index of the next source
\* of its loop, the records pushed to `created` so far, and the store as it
\* was when the command was given
NoImport == [active |-> FALSE, pid |-> NoId, srcs |-> <<>>, k |-> 1, created |-> <<>>,
             before |-> <<>>]

Call(op, pid, input, srcs, res) ==
  [op |-> op, pid |-> pid, input |-> input, srcs |-> srcs, res |-> res]

\* the state before the first command: nothing exists yet
Init ==
  /\ db = NoDb
  /\ dirs = {}
  /\ disk = <<>>
  /\ clock = 0
  /\ zone \in Zones
  /\ usedIds = {}
  /\ imp = NoImport
  /\ last = Call("none", NoId, <<>>, <<>>, Ok(<<>>))
  /\ ncalls = 0

Idle == ~imp.active /\ ncalls < MaxOps

\* the n readings of the clock a command makes from now on, in order: time
\* passes between them or not, at most MaxDrift ticks in all
Readings(n) ==
  {ts \in [1..n -> clock..Min({clock + MaxDrift, MaxClock})] :
     /\ ts[1] = clock
     /\ \A i \in 1..(n - 1) : ts[i] <= ts[i + 1]}

Leaves(o) == db' = o.db /\ dirs' = o.dirs /\ disk' = o.disk

Tick ==
  /\ clock < MaxClock
  /\ clock' = clock + 1
  /\ UNCHANGED <<db, dirs, disk, zone, usedIds, imp, last, ncalls>>

CreatePatient ==
  \E input \in Inputs, ts \in Readings(2) :
    \E id \in (IF RustTrim(input["name"]) = <<>> THEN {NoId} ELSE FreshIds(usedIds)) :
      LET o == create_patient(Store, zone, ts, input, id)
      IN /\ Idle
         /\ Leaves(o)
         /\ clock' = ts[2]
         /\ usedIds' = (IF id = NoId THEN usedIds ELSE usedIds \cup {id})
         /\ last' = Call("create_patient", id, <<input>>, <<>>, o.res)
         /\ ncalls' = ncalls + 1
         /\ UNCHANGED <<zone, imp>>

ListPatients ==
  \E query \in Filters :
    \E ids \in SelectPatients(ensure_schema(db, clock).db, RustTrim(query)) :
      LET o == list_patients(Store, clock, query, ids)
      IN /\ Idle
         /\ Leaves(o)
         /\ last' = Call("list_patients", NoId, <<query>>, <<>>, o.res)
         /\ ncalls' = ncalls + 1
         /\ UNCHANGED <<clock, zone, usedIds, imp>>

UpdatePatient ==
  \E pid \in Ids, input \in Inputs, ts \in Readings(2) :
    LET o == update_patient(Store, zone, ts, pid, input)
    IN /\ Idle
       /\ Leaves(o)
       /\ clock' = ts[2]
       /\ last' = Call("update_patient", pid, <<input>>, <<>>, o.res)
       /\ ncalls' = ncalls + 1
       /\ UNCHANGED <<zone, usedIds, imp>>

DeletePatient ==
  \E pid \in Ids :
    LET o == delete_patient(Store, clock, pid)
    IN /\ Idle
       /\ Leaves(o)
       /\ last' = Call("delete_patient", pid, <<>>, <<>>, o.res)
       /\ ncalls' = ncalls + 1
       /\ UNCHANGED <<clock, zone, usedIds, imp>>

SetPatientPhoto ==
  \E pid \in CallerIds, src \in Sources, ts \in Readings(4) :
    \* the INSERT is reached only when the copy has succeeded
    \E insertFails \in (IF src.kind = "file" THEN BOOLEAN ELSE {FALSE}) :
      LET o == set_patient_photo(Store, zone, ts, pid, src, insertFails)
      IN /\ Idle
         /\ Leaves(o)
         /\ clock' = ts[4]
         /\ last' = Call("set_patient_photo", pid, <<insertFails>>, <<src>>, o.res)
         /\ ncalls' = ncalls + 1
         /\ UNCHANGED <<zone, usedIds, imp>>

CreateMentalExam ==
  \E pid \in CallerIds, ts \in Readings(3) :
    LET o == create_mental_exam(Store, zone, ts, pid)
    IN /\ Idle
       /\ Leaves(o)
       /\ clock' = ts[3]
       /\ last' = Call("create_mental_exam", pid, <<>>, <<>>, o.res)
       /\ ncalls' = ncalls + 1
       /\ UNCHANGED <<zone, usedIds, imp>>

ListPatientFiles ==
  \E pid \in Ids :
    LET o == list_patient_files(Store, clock, pid)
    IN /\ Idle
       /\ Leaves(o)
       /\ last' = Call("list_patient_files", pid, <<>>, <<>>, o.res)
       /\ ncalls' = ncalls + 1
       /\ UNCHANGED <<clock, zone, usedIds, imp>>

OpenPatientFolder ==
  \E pid \in CallerIds, opened \in BOOLEAN :
    LET o == open_patient_folder(Store, pid, opened)
    IN /\ Idle
       /\ Leaves(o)
       /\ last' = Call("open_patient_folder", pid, <<opened>>, <<>>, o.res)
       /\ ncalls' = ncalls + 1
       /\ UNCHANGED <<clock, zone, usedIds, imp>>

\* import_files is given: it opens the database and enters its loop
ImportBegin ==
  \E pid \in CallerIds, srcs \in SrcLists :
    LET o == import_open(Store, clock, pid)
    IN /\ Idle
       /\ Leaves(o)
       /\ imp' = (IF o.res.ok
                  THEN [active |-> TRUE, pid |-> pid, srcs |-> srcs, k |-> 1,
                        created |-> <<>>, before |-> Store]
                  ELSE NoImport)
       /\ last' = Call("import_files", pid, <<>>, <<>>, o.res)
       /\ ncalls' = ncalls + 1
       /\ UNCHANGED <<clock, zone, usedIds>>

\* one turn of the loop; the clock may have moved since the last turn, and
\* moves within it
ImportStep ==
  /\ imp.active
  /\ imp.k <= Len(imp.srcs)
  /\ \E ts \in Readings(2) :
       LET o == import_one(Store, zone, ts, imp.pid, imp.srcs[imp.k])
       IN /\ Leaves(o)
          /\ clock' = ts[2]
          /\ imp' = (IF o.res.ok
                     THEN [imp EXCEPT !.k = @ + 1, !.created = @ \o o.res.val]
                     ELSE NoImport)
          /\ last' = (IF o.res.ok THEN last ELSE [last EXCEPT !.res = o.res])
  /\ UNCHANGED <<zone, usedIds, ncalls>>

\* the loop is over: Ok(created)
ImportReturn ==
  /\ imp.active
  /\ imp.k > Len(imp.srcs)
  /\ imp' = NoImport
  /\ last' = [last EXCEPT !.res = Ok(imp.created)]
  /\ UNCHANGED <<db, dirs, disk, clock, zone, usedIds, ncalls>>

\* the commands main registers; open_path hands a path to the system's opener
\* and touches neither the database nor the file tree, so it is no step here
Next ==
  \/ Tick
  \/ ListPatients
  \/ CreatePatient
  \/ UpdatePatient
  \/ DeletePatient
  \/ SetPatientPhoto
  \/ CreateMentalExam
  \/ ListPatientFiles
  \/ OpenPatientFolder
  \/ ImportBegin
  \/ ImportStep
  \/ ImportReturn

Spec == Init /\ [][Next]_vars

----------------------------------------------------------------------------
(* Opening a database file left by an older version of the program *)

\* columns a patients table of an older version may or may not have
LegacyVaryCols == {"name", "full_name", "sex", "emergency_contact", "created_at",
                   "updated_at"}
OtherCols == CurrentCols \ (LegacyVaryCols \cup {"id"})

LegacyNames == {NULL, Txt(<<>>), Txt(<<" ">>), Txt(<<"a">>)}
LegacyFullNames == {NULL, Txt(<<>>), Txt(<<"b">>)}
LegacyStamps == {NULL, Txt(<<>>), Txt(<<" ">>), Txt(SqlNow(0))}

LegacyRow(cols, nm, fn, ca, ua) ==
  [c \in RowCols |->
     IF c \notin cols THEN NULL
     ELSE CASE c = "id" -> Txt(<<"p1">>)
            [] c = "name" -> nm
            [] c = "full_name" -> fn
            [] c = "created_at" -> ca
            [] c = "updated_at" -> ua
            [] OTHER -> NULL]

\* a patients table with columns cols, name declared NOT NULL or not, and the
\* given rows; no files table yet
LegacyDb(cols, nn, rows) ==
  [pcols |-> cols, nameNotNull |-> nn, patients |-> rows, hasFiles |-> FALSE,
   files |-> {}, fileSeq |-> 0]

LegacyDbs ==
  {NoDb} \cup
  UNION {
    LET cols == {"id"} \cup S \cup (IF rest THEN OtherCols ELSE {})
    IN {LegacyDb(cols, nn, <<>>) : nn \in {b \in BOOLEAN : b \/ "name" \in cols}}
       \cup
       {LegacyDb(cols, nn, [id \in {<<"p1">>} |-> LegacyRow(cols, nm, fn, ca, ua)]) :
          nn \in {b \in BOOLEAN : b \/ "name" \in cols},
          nm \in LegacyNames, fn \in LegacyFullNames,
          ca \in LegacyStamps, ua \in LegacyStamps}
    : S \in SUBSET LegacyVaryCols, rest \in BOOLEAN}

\* a NOT NULL name column holds no NULL
LegacyOk(d) ==
  \A id \in DOMAIN d.patients :
    ("name" \in d.pcols /\ d.nameNotNull) => ~IsNull(d.patients[id]["name"])

InitLegacy ==
  /\ db \in {d \in LegacyDbs : LegacyOk(d)}
  /\ dirs = {Base}
  /\ disk = <<>>
  /\ clock = 0
  /\ zone \in Zones
  /\ usedIds = {}
  /\ imp = NoImport
  /\ last = Call("none", NoId, <<>>, <<>>, Ok(<<>>))
  /\ ncalls = 0

\* open_db on the file: ensure_schema runs on every open
OpenDb ==
  LET o == ensure_schema(db, clock)
  IN /\ ncalls < MaxOps
     /\ db' = o.db
     /\ dirs' = dirs \cup {Base}
     /\ last' = Call("open_db", NoId, <<>>, <<>>, IF o.ok THEN Ok(<<>>) ELSE Err(ErrSchema))
     /\ ncalls' = ncalls + 1
     /\ UNCHANGED <<disk, clock, zone, usedIds, imp>>

NextSchema ==
  \/ Tick
  \/ OpenDb

SpecSchema == InitLegacy /\ [][NextSchema]_vars

----------------------------------------------------------------------------
(* The relative path codec on its own: rel_from_base, then abs_from_base *)

PathChars == {"/", "\\", "a", "b"}
Paths == UNION {[1..n -> PathChars] : n \in 1..MaxPathLen}

\* a platform and a base directory app_base_dir may give on it (an absolute path)
CodecBases == {<<"unix", <<"/", "a">>>>, <<"windows", <<"/", "a">>>>,
               <<"windows", <<"\\", "a">>>>}

\* what app_base_dir does when rel_from_base and abs_from_base call it: it
\* gives the base directory, which it creates ("ok"), or fails to create it
\* ("blocked"), or resolves no directory ("none")
BaseResults == {"ok", "blocked", "none"}
ErrBase(b) == IF b = "blocked" THEN ErrCrearBase ELSE ErrResolver

\* last.input holds the platform, the base directory, the path given and what
\* app_base_dir does
InitCodec ==
  /\ db = NoDb
  /\ dirs = {}
  /\ disk = <<>>
  /\ clock = 0
  /\ zone \in Zones
  /\ usedIds = {}
  /\ imp = NoImport
  /\ \E cb \in CodecBases, path \in Paths, b \in BaseResults :
       last = Call("path", NoId, <<cb[1], cb[2], path, b>>, <<>>, Ok(<<>>))
  /\ ncalls = 0

\* rel_from_base: app_base_dir()?, then the path is made relative
RelFromBase ==
  LET r == RelFrom(last.input[1], last.input[2], last.input[3])
  IN /\ last.op = "path"
     /\ dirs' = (IF last.input[4] = "ok" THEN dirs \cup {last.input[2]} ELSE dirs)
     /\ last' = Call("rel_from_base", NoId, last.input, <<>>,
                     IF last.input[4] # "ok" THEN Err(ErrBase(last.input[4]))
                     ELSE IF r.ok THEN Ok(r.val) ELSE Err(ErrRelPath))
     /\ ncalls' = ncalls + 1
     /\ UNCHANGED <<db, disk, clock, zone, usedIds, imp>>

\* abs_from_base: app_base_dir()?, then the stored string is resolved again
AbsFromBase ==
  /\ last.op = "rel_from_base"
  /\ last.res.ok
  /\ dirs' = (IF last.input[4] = "ok" THEN dirs \cup {last.input[2]} ELSE dirs)
  /\ last' = Call("abs_from_base", NoId, last.input, <<>>,
                  IF last.input[4] # "ok" THEN Err(ErrBase(last.input[4]))
                  ELSE Ok(AbsFrom(last.input[1], last.input[2], last.res.val)))
  /\ ncalls' = ncalls + 1
  /\ UNCHANGED <<db, disk, clock, zone, usedIds, imp>>

NextCodec ==
  \/ RelFromBase
  \/ AbsFromBase

SpecCodec == InitCodec /\ [][NextCodec]_vars

----------------------------------------------------------------------------
(* app_base_dir on its own, on a platform that may not resolve a directory *)
(* or on which a resolved directory's NAJU folder cannot be created        *)

\* the three lookups app_base_dir makes, in its order
Candidates == <<"app_data_dir", "data_dir", "home_dir">>

CandidateDir(c) ==
  CASE c = "app_data_dir" -> <<"/", "appdata">>
    [] c = "data_dir" -> <<"/", "data">>
    [] c = "home_dir" -> <<"/", "home">>

\* dir.push("NAJU")
NajuDir(c) == Join(CandidateDir(c), <<"NAJU">>)

\* what the platform gives for a lookup: "none" (the lookup returns None),
\* "ok" (a directory in which NAJU exists or can be created), "blocked" (a
\* directory in which NAJU does not exist and create_dir_all fails)
Lookups == {"none", "ok", "blocked"}
Platforms == [Range(Candidates) -> Lookups]

\* app_base_dir: the first lookup that is Some decides
app_base_dir(env, dr) ==
  LET some == {k \in 1..Len(Candidates) : env[Candidates[k]] # "none"}
      c == Candidates[Min(some)]
  IN IF some = {} THEN [dirs |-> dr, res |-> Err(ErrResolver)]
     ELSE IF env[c] = "blocked" THEN [dirs |-> dr, res |-> Err(ErrCrearBase)]
     ELSE [dirs |-> dr \cup {NajuDir(c)}, res |-> Ok(NajuDir(c))]

\* last.input holds the platform; NAJU may exist already where it can exist
InitBase ==
  /\ db = NoDb
  /\ disk = <<>>
  /\ clock = 0
  /\ zone \in Zones
  /\ usedIds = {}
  /\ imp = NoImport
  /\ \E env \in Platforms :
       /\ last = Call("platform", NoId, <<env>>, <<>>, Ok(<<>>))
       /\ dirs \in SUBSET {NajuDir(c) : c \in {x \in Range(Candidates) : env[x] = "ok"}}
  /\ ncalls = 0

AppBaseDir ==
  LET o == app_base_dir(last.input[1], dirs)
  IN /\ ncalls < MaxOps
     /\ dirs' = o.dirs
     /\ last' = Call("app_base_dir", NoId, last.input, <<>>, o.res)
     /\ ncalls' = ncalls + 1
     /\ UNCHANGED <<db, disk, clock, zone, usedIds, imp>>

NextBase == AppBaseDir

SpecBase == InitBase /\ [][NextBase]_vars

----------------------------------------------------------------------------
(* Claims *)

\* a step in which a command is given
Given(op) == ncalls' = ncalls + 1 /\ last'.op = op

Blank(name) == RustTrim(name) = <<>>

UnderDir(dir, path) == IsPrefix(dir \o <<"/">>, path)

\* C1: create_patient with a name that is non-empty after trimming returns
\* success carrying the stored record: the fresh id, the trimmed name, every
\* optional field as supplied, photo_path null, created_at and updated_at as
\* stored in the row.
C1_CreateReturnsStoredRecord ==
  (last.op = "create_patient" /\ ~Blank(last.input[1]["name"])) =>
    /\ last.res.ok
    /\ last.pid \in DOMAIN db.patients
    /\ LET p == last.res.val[1]
           r == db.patients[last.pid]
       IN /\ p["id"] = last.pid
          /\ p["name"] = RustTrim(last.input[1]["name"])
          /\ \A f \in OptFields : p[f] = last.input[1][f]
          /\ p["photo_path"] = NULL
          /\ Txt(p["created_at"]) = r["created_at"]
          /\ Txt(p["updated_at"]) = r["updated_at"]

\* C2: create_patient with an empty or whitespace-only name returns the
\* validation error and leaves the patients table, the files table and the
\* file tree unchanged.
C2_BlankNameRejected ==
  [][(Given("create_patient") /\ Blank(last'.input[1]["name"])) =>
       /\ last'.res = Err(ErrNombre)
       /\ db' = db
       /\ dirs' = dirs
       /\ disk' = disk]_vars

\* a whitespace-only name has been refused while a patient was stored
C2_Witness ==
  /\ last.op = "create_patient"
  /\ last.input[1]["name"] # <<>>
  /\ Blank(last.input[1]["name"])
  /\ last.res = Err(ErrNombre)
  /\ DOMAIN db.patients # {}

\* C3: delete_patient(id) on an existing patient removes its patients row and
\* every files row of that patient, leaves the rows of the other patients and
\* their files rows unchanged, and leaves every file on disk as it was.
C3_DeleteRemovesRowsKeepsFiles ==
  [][(Given("delete_patient") /\ last'.pid \in DOMAIN db.patients) =>
       /\ last'.res.ok
       /\ last'.pid \notin DOMAIN db'.patients
       /\ \A f \in db'.files : f.patient_id # last'.pid
       /\ DOMAIN db'.patients = DOMAIN db.patients \ {last'.pid}
       /\ \A q \in DOMAIN db'.patients : db'.patients[q] = db.patients[q]
       /\ db'.files = {f \in db.files : f.patient_id # last'.pid}
       /\ disk' = disk]_vars

\* a patient whose files rows were cascaded away has been deleted, and a file
\* stored under its folder is still on disk
C3_Witness ==
  /\ last.op = "delete_patient"
  /\ last.res.ok
  /\ last.pid \in usedIds
  /\ last.pid \notin DOMAIN db.patients
  /\ db.fileSeq > 0
  /\ db.files = {}
  /\ \E path \in DOMAIN disk : UnderDir(PatientDir(last.pid), path)

\* C4: in every reachable state every patients row has a name that is
\* non-empty after trimming.
C4_NameNeverEmpty ==
  \A id \in DOMAIN db.patients :
    /\ ~IsNull(db.patients[id]["name"])
    /\ ~Blank(db.patients[id]["name"][1])

\* C5: after ensure_schema succeeds on a patients table of any older shape, the
\* table has every column the commands read and write, and every column and
\* every row that existed before is still there.
C5_MigrationAddsEveryColumn ==
  [][(Given("open_db") /\ last'.res.ok) =>
       /\ CurrentCols \subseteq db'.pcols
       /\ db.pcols \subseteq db'.pcols
       /\ DOMAIN db.patients \subseteq DOMAIN db'.patients]_vars

\* C6: ensure_schema run again on a database on which it has succeeded changes
\* nothing: no column is added and no row changes.
C6_EnsureSchemaIdempotent ==
  [][(Given("open_db") /\ last.op = "open_db" /\ last.res.ok) =>
       /\ last'.res.ok
       /\ db' = db]_vars

\* ensure_schema has run twice, at different seconds, on an older table whose
\* row had its name and its timestamps filled in by the first run
C6_Witness ==
  /\ last.op = "open_db"
  /\ last.res.ok
  /\ ncalls >= 2
  /\ Sec(clock) > 0
  /\ "full_name" \in db.pcols
  /\ \E id \in DOMAIN db.patients :
       /\ db.patients[id]["full_name"] = Txt(<<"b">>)
       /\ db.patients[id]["name"] = Txt(<<"b">>)
       /\ db.patients[id]["created_at"] = Txt(SqlNow(0))
       /\ db.patients[id]["updated_at"] = Txt(<<" ">>)

\* C7: every file stored by import_files or create_mental_exam gets a path no
\* earlier file of the patient has, so no two files rows of kind attachment or
\* exam share a stored_relpath.
C7_StoredPathsUnique ==
  \A f, g \in {h \in db.files : h.kind \in {"attachment", "exam"}} :
    f.id # g.id => f.stored_relpath # g.stored_relpath

\* the step in which the running import_files call ends
ImportEnds == imp.active /\ ~imp'.active

\* the sources of the running call that exist, in the order given
Existing(srcs) == SelectSeq(srcs, LAMBDA x : x.kind # "missing")

\* the call returns Ok(created) with one record per existing source, in order,
\* each with its kind-'attachment' files row, the only rows the call inserted
ImportedAll ==
  LET ex == Existing(imp.srcs)
      n == Len(imp.created)
  IN /\ last'.res = Ok(imp.created)
     /\ n = Len(ex)
     /\ \A i \in 1..n :
          LET c == imp.created[i]
          IN /\ c.filename = sanitize_filename(file_name(ex[i].path))
             /\ c.kind = "attachment"
             /\ c.patient_id = imp.pid
             /\ c.id = db'.fileSeq - n + i
             /\ c.path \in DOMAIN disk'
             /\ \E f \in db'.files :
                  /\ f.id = c.id
                  /\ f.kind = "attachment"
                  /\ f.patient_id = imp.pid
                  /\ f.filename = c.filename
                  /\ abs_from_base(f.stored_relpath) = c.path

\* a turn of the loop on a missing source adds no row, no file and no record
MissingSkipped ==
  (imp.active /\ imp'.active /\ imp'.k = imp.k + 1
     /\ imp.srcs[imp.k].kind = "missing") =>
    (db' = db /\ disk' = disk /\ dirs' = dirs /\ imp'.created = imp.created)

\* C8 as stated: import_files for an existing patient, some sources missing,
\* returns success with exactly one record per existing source, in the order
\* given, inserts one kind-'attachment' row per existing source, and adds no
\* row and no file for a missing source.
C8_ImportOnePerExisting ==
  [][/\ (ImportEnds /\ imp.pid \in DOMAIN db.patients) => ImportedAll
     /\ MissingSkipped]_vars

\* C8 amended: the same, for a list whose existing sources are all regular
\* files (fs::copy succeeds on them).
C8_ImportOnePerCopyable ==
  [][/\ (/\ ImportEnds
         /\ imp.pid \in DOMAIN db.patients
         /\ \A i \in 1..Len(imp.srcs) : imp.srcs[i].kind \in {"file", "missing"})
        => ImportedAll
     /\ MissingSkipped]_vars

\* the loop of an import for an existing patient is over: a missing source
\* stood before a file, and one record was made, of a file now on disk
C8_Witness ==
  /\ imp.active
  /\ imp.k > Len(imp.srcs)
  /\ imp.pid \in DOMAIN db.patients
  /\ Len(imp.srcs) = 2
  /\ imp.srcs[1].kind = "missing"
  /\ imp.srcs[2].kind = "file"
  /\ Len(imp.created) = 1
  /\ imp.created[1].path \in DOMAIN disk
  /\ Cardinality(db.files) = 1

\* C9: set_patient_photo with a source that does not exist, or whose copy
\* fails, returns an error and leaves photo_path, updated_at (every patients
\* row) and the files table as they were.
C9_PhotoFailureTouchesNoRow ==
  [][(Given("set_patient_photo") /\ last'.srcs[1].kind # "file") =>
       /\ ~last'.res.ok
       /\ last'.res.err = (IF last'.srcs[1].kind = "missing" THEN ErrNoFoto
                           ELSE ErrCopyFoto)
       /\ db'.patients = db.patients
       /\ db'.files = db.files
       /\ db'.fileSeq = db.fileSeq]_vars

\* a photo from a missing source has been refused for a patient that has a
\* photo already
C9_Witness ==
  /\ last.op = "set_patient_photo"
  /\ last.srcs[1].kind = "missing"
  /\ last.pid \in DOMAIN db.patients
  /\ ~IsNull(db.patients[last.pid]["photo_path"])

\* C10: every files row's patient_id is the id of a patients row.
C10_FilesRowsHavePatient ==
  \A f \in db.files : f.patient_id \in DOMAIN db.patients

\* a command that stores a file has been given an id that matches no row,
\* while another patient has files rows
C10_Witness ==
  /\ last.op \in {"create_mental_exam", "set_patient_photo", "import_files"}
  /\ last.pid \notin DOMAIN db.patients
  /\ ~last.res.ok
  /\ \E path \in DOMAIN disk : UnderDir(PatientDir(last.pid), path)
  /\ db.files # {}

\* C11: update_patient(id, input) on an existing id replaces name (stored
\* trimmed, as the statement binds input.name.trim()) and the ten optional
\* fields by the input values, a field absent from the input becoming null,
\* sets updated_at to the current time, and leaves that row's id, created_at
\* and photo_path, every other patients row and every files row unchanged; on
\* an id that matches no row it returns an error and changes no row and no file.
C11_UpdateReplacesAndFrames ==
  [][Given("update_patient") =>
       LET pid == last'.pid
           input == last'.input[1]
       IN IF pid \in DOMAIN db.patients
          THEN /\ DOMAIN db'.patients = DOMAIN db.patients
               /\ db'.patients[pid]["name"] = Txt(RustTrim(input["name"]))
               /\ \A f \in OptFields : db'.patients[pid][f] = input[f]
               /\ db'.patients[pid]["updated_at"] = Txt(now_iso(zone, clock'))
               /\ \A c \in {"id", "created_at", "photo_path"} :
                    db'.patients[pid][c] = db.patients[pid][c]
               /\ \A q \in DOMAIN db.patients \ {pid} : db'.patients[q] = db.patients[q]
               /\ db'.files = db.files
               /\ disk' = disk
          ELSE /\ ~last'.res.ok
               /\ db'.patients = db.patients
               /\ db'.files = db.files
               /\ disk' = disk]_vars

\* a patient stored with optional fields has been updated, at a later time,
\* with an input that leaves them out, while another patient exists
C11_Witness ==
  /\ last.op = "update_patient"
  /\ last.pid \in DOMAIN db.patients
  /\ Cardinality(DOMAIN db.patients) = 2
  /\ last.input[1] = InputA
  /\ LET r == db.patients[last.pid]
     IN /\ r["name"] = Txt(<<"a">>)
        /\ r["insurer"] = NULL
        /\ r["sex"] = Txt(<<"b">>)
        /\ r["created_at"] = Txt(now_iso(zone, 0))
        /\ r["updated_at"] = Txt(now_iso(zone, MaxClock))

\* the point in time, in ticks, a stored timestamp denotes: now_iso() writes
\* local time with its offset from UTC, datetime('now') whole seconds of UTC
\* (every timestamp of the model lies within the one UTC day)
IsStamp(v) ==
  /\ ~IsNull(v)
  /\ \/ Len(v[1]) = 6 /\ v[1][2] = "T"
     \/ Len(v[1]) = 3 /\ v[1][2] = " "
  /\ v[1][3] \in Range(Digits)

DigitVal(c) == CHOOSE n \in 0..9 : Digit(n) = c

TimeOf(v) ==
  IF Len(v[1]) = 6
  THEN (DigitVal(v[1][3]) - Ahead(v[1][6])) * TicksPerSec + DigitVal(v[1][5])
  ELSE DigitVal(v[1][3]) * TicksPerSec

\* C12: in every reachable state every patients row that has both timestamps
\* has created_at <= updated_at as points in time, the rows of an older
\* database whose empty created_at or updated_at ensure_schema filled in
\* included.
C12_CreatedNotAfterUpdated ==
  \A id \in DOMAIN db.patients :
    LET r == db.patients[id]
    IN (IsStamp(r["created_at"]) /\ IsStamp(r["updated_at"])) =>
         TimeOf(r["created_at"]) <= TimeOf(r["updated_at"])

\* C13: right after create_patient the stored row has created_at = updated_at,
\* and every update_patient or set_patient_photo on a row leaves its
\* updated_at, as a point in time, greater than or equal to what it was.
C13_UpdatedAtNeverDecreases ==
  [][/\ (Given("create_patient") /\ last'.pid \in DOMAIN db'.patients) =>
          db'.patients[last'.pid]["created_at"] = db'.patients[last'.pid]["updated_at"]
     /\ ((Given("update_patient") \/ Given("set_patient_photo"))
          /\ last'.pid \in DOMAIN db.patients) =>
          /\ last'.pid \in DOMAIN db'.patients
          /\ TimeOf(db'.patients[last'.pid]["updated_at"])
               >= TimeOf(db.patients[last'.pid]["updated_at"])]_vars

\* a patient created at time 0 was updated and then, later still, given a
\* photo: its updated_at is the time of the photo
C13_Witness ==
  /\ last.op = "set_patient_photo"
  /\ last.pid \in DOMAIN db.patients
  /\ LET r == db.patients[last.pid]
     IN /\ r["name"] = Txt(<<"a">>)
        /\ r["insurer"] = NULL
        /\ ~IsNull(r["photo_path"])
        /\ r["created_at"] = Txt(now_iso(zone, 0))
        /\ r["updated_at"] = Txt(now_iso(zone, MaxClock))

\* text contains q as a literal substring, letter case ignored
ContainsNoCase(text, q) ==
  \E i \in 1..(Len(text) - Len(q) + 1) :
    \A j \in 1..Len(q) : Fold(text[i + j - 1]) = Fold(q[j])

\* C14: list_patients(filter) returns every patient when the filter is empty
\* after trimming, and otherwise exactly the patients whose name, doc_number,
\* insurer or emergency_contact contains the trimmed filter as a literal
\* substring, letter case ignored (no match through another field or through a
\* wildcard reading of the filter); the result is ordered by updated_at, most
\* recently updated first.
C14_ListFiltersAndOrders ==
  [][Given("list_patients") =>
       LET q == RustTrim(last'.input[1])
           want == IF q = <<>> THEN DOMAIN db'.patients
                   ELSE {id \in DOMAIN db'.patients :
                           \E c \in {"name", "doc_number", "insurer", "emergency_contact"} :
                             /\ ~IsNull(db'.patients[id][c])
                             /\ ContainsNoCase(db'.patients[id][c][1], q)}
           out == last'.res.val
       IN /\ last'.res.ok
          /\ Len(out) = Cardinality(want)
          /\ {out[i]["id"] : i \in 1..Len(out)} = want
          /\ \A i \in 1..Len(out) : \A j \in (i + 1)..Len(out) :
               TimeOf(Txt(out[i]["updated_at"])) >= TimeOf(Txt(out[j]["updated_at"]))]_vars

\* path is base or lies under it / lies strictly under it, by components
UnderBase(conv, base, path) ==
  LET bc == Components(conv, base)
      pc == Components(conv, path)
  IN /\ Len(bc) <= Len(pc)
     /\ SubSeq(pc, 1, Len(bc)) = bc
StrictlyUnderBase(conv, base, path) ==
  UnderBase(conv, base, path) /\ Len(Components(conv, base)) < Len(Components(conv, path))

\* C15: for every base directory (one app_base_dir gives) and every path p
\* strictly under it, rel_from_base(p) succeeds with a string free of '\\' and
\* abs_from_base(rel_from_base(p)) is the path p, whichever separators p is
\* written with; rel_from_base of a path not under the base directory is an
\* error.
C15_CodecRoundTrip ==
  LET conv == last.input[1]
      base == last.input[2]
      path == last.input[3]
      given == last.input[4] = "ok"
  IN /\ (last.op = "rel_from_base" /\ given /\ StrictlyUnderBase(conv, base, path)) =>
          (last.res.ok /\ \A i \in 1..Len(last.res.val) : last.res.val[i] # "\\")
     /\ (last.op = "rel_from_base" /\ ~UnderBase(conv, base, path)) => ~last.res.ok
     /\ (last.op = "abs_from_base" /\ given /\ StrictlyUnderBase(conv, base, path)) =>
          /\ last.res.ok
          /\ PathEq(conv, last.res.val, path)

\* C16: app_base_dir returns the NAJU folder of the first of app_data_dir,
\* data_dir, home_dir that is available (resolved, NAJU present or creatable),
\* and an error only when none of the three is available.
C16_FirstAvailableCandidate ==
  (last.op = "app_base_dir") =>
    LET env == last.input[1]
        avail == {k \in 1..Len(Candidates) : env[Candidates[k]] = "ok"}
    IN IF avail = {} THEN ~last.res.ok
       ELSE /\ last.res = Ok(NajuDir(Candidates[Min(avail)]))
            /\ NajuDir(Candidates[Min(avail)]) \in dirs

\* the path a stored relative path resolves to holds a file
Resolves(rel) == abs_from_base(rel) \in DOMAIN disk

\* C17: a files row is inserted only once its file is at its destination and
\* is never changed afterwards (it stays as inserted or is deleted), so after
\* every step each files row's stored_relpath and each non-null photo_path
\* resolves under the base directory to a file that exists.
C17_RowsResolveToFiles ==
  [][/\ \A f \in db'.files : abs_from_base(f.stored_relpath) \in DOMAIN disk'
     /\ \A id \in DOMAIN db'.patients :
          ~IsNull(db'.patients[id]["photo_path"]) =>
            /\ abs_from_base(db'.patients[id]["photo_path"][1]) \in DOMAIN disk'
            /\ UnderDir(Base, abs_from_base(db'.patients[id]["photo_path"][1]))
     /\ \A f \in db'.files : UnderDir(Base, abs_from_base(f.stored_relpath))
     /\ \A f \in db.files : f \in db'.files \/ \A g \in db'.files : g.id # f.id
     /\ \A g \in db'.files \ db.files : g.id > db.fileSeq]_vars

\* a patient has a photo and an exam: its photo_path and its two files rows
\* resolve to files on disk
C17_Witness ==
  /\ \E id \in DOMAIN db.patients :
       /\ ~IsNull(db.patients[id]["photo_path"])
       /\ Resolves(db.patients[id]["photo_path"][1])
       /\ \E f, g \in db.files :
            /\ f.patient_id = id /\ f.kind = "photo" /\ Resolves(f.stored_relpath)
            /\ g.patient_id = id /\ g.kind = "exam" /\ Resolves(g.stored_relpath)
            /\ f.stored_relpath # g.stored_relpath

\* C18: set_patient_photo whose copy and whose UPDATE of photo_path and
\* updated_at succeed while its INSERT of the kind-'photo' files row fails
\* still returns success, and the row keeps the new photo_path and updated_at.
C18_PhotoInsertFailureTolerated ==
  [][(/\ Given("set_patient_photo")
      /\ last'.srcs[1].kind = "file"
      /\ last'.pid \in DOMAIN db.patients
      /\ last'.input[1]) =>
       /\ last'.res.ok
       /\ db'.files = db.files
       /\ \E t \in clock..clock', u \in clock..clock' :
            /\ t <= u
            /\ db'.patients[last'.pid]["photo_path"] =
                 Txt(rel_from_base(PhotoDst(last'.pid, last'.srcs[1], zone, t)).val)
            /\ db'.patients[last'.pid]["updated_at"] = Txt(now_iso(zone, u))
            /\ PhotoDst(last'.pid, last'.srcs[1], zone, t) \in DOMAIN disk']_vars

\* C19: on a patients table that has a full_name column, a successful
\* ensure_schema sets name to full_name in every row whose name is empty or
\* whitespace-only and whose full_name is non-empty, leaves the name of every
\* row whose name is non-blank as it is, and changes no full_name.
C19_FullNameBackfill ==
  [][(Given("open_db") /\ last'.res.ok /\ "full_name" \in db.pcols) =>
       \A id \in DOMAIN db.patients :
         LET old == db.patients[id]
             new == db'.patients[id]
             blank == IsNull(old["name"]) \/ Blank(old["name"][1])
         IN /\ id \in DOMAIN db'.patients
            /\ (blank /\ ~IsNull(old["full_name"]) /\ old["full_name"] # Txt(<<>>)) =>
                 new["name"] = old["full_name"]
            /\ ~blank => new["name"] = old["name"]
            /\ new["full_name"] = old["full_name"]]_vars

\* C20: ensure_schema (and so open_db) succeeds on every patients table of an
\* older shape whatever its rows hold, a row with an empty name and a NULL
\* full_name included.
C20_EnsureSchemaSucceeds ==
  (last.op = "open_db") => last.res.ok

\* rows and file tree after the step are those of store st (the base directory
\* itself, which every command creates, left aside)
SameAs(st) ==
  /\ db'.patients = st.db.patients
  /\ db'.files = st.db.files
  /\ disk' = st.disk
  /\ dirs' \ {Base} = st.dirs \ {Base}

\* C21: whenever create_patient, update_patient, set_patient_photo,
\* create_mental_exam or import_files returns an error, the patients rows, the
\* files rows and the file tree are exactly as they were when the command was
\* given, also for an id that matches no row and for an import that fails
\* part-way.
C21_FailureAtomicity ==
  [][/\ \A op \in {"create_patient", "update_patient", "set_patient_photo",
                   "create_mental_exam", "import_files"} :
          (Given(op) /\ ~last'.res.ok) => SameAs(Store)
     /\ (ImportEnds /\ ~last'.res.ok) => SameAs(imp.before)]_vars

====
